---- MODULE Spec2Model ----
(***************************************************************************)
(* Model of emissionsapi_worldmap_creator: prepare (point-to-hexagon       *)
(* aggregation), the file cache, get_points and main.                      *)
(*                                                                         *)
(* Numbers: a float is an exact rational <<num, den>> in lowest terms      *)
(* (den > 0); raw measurement values are integers.  NaN / None inside a    *)
(* frame is the empty tuple.  A string is a sequence of characters.        *)
(***************************************************************************)
EXTENDS Integers, Sequences, FiniteSets

VARIABLES
    raw,      \* the frame handed to prepare (get_points: df of line 162)
    df,       \* the frame prepare / get_points returned, or None
    grouped,  \* prepare's local df after line 117, or None
    raised,   \* the exception that left the current call, "" if none
    ncalls,   \* number of prepare calls made on raw by the caller
    results,  \* the (hex, value) pair sets of all prepare results so far
    perm,     \* "pending": rows reordered since the last prepare call;
              \* "called": prepare has run on rows reordered after a call
    fs,       \* the cache files: file name -> stored records
    fs0,      \* fs as it was when the current invocation of main started
    lastSaved,\* per file name, the frame of the last cache_save there
    loaded,   \* the last cache_load: its key and what it returned
    pc,       \* position of main
    args,     \* argparse.Namespace of the current invocation
    found,    \* result of os.path.exists in the cache_load of get_points
    calls,    \* functions get_points called in this invocation, in order
    plotted   \* the arguments plot was called with, or None

vars == <<raw, df, grouped, raised, ncalls, results, perm, fs, fs0, lastSaved,
          loaded, pc, args, found, calls, plotted>>

----------------------------------------------------------------------------
(* Bounds of the model *)

MaxPoints == 3
MaxCalls == 2

(* Program constants *)

RESOLUTION == 4
DefaultPixelsX == 8000
DefaultPixelsY == 4000
DefaultDpi == 96

----------------------------------------------------------------------------
(* Values *)

NaN == <<>>
None == [none |-> TRUE]

Abs(n) == IF n < 0 THEN -n ELSE n

RECURSIVE GCD(_, _)
GCD(a, b) == IF b = 0 THEN a ELSE GCD(b, a % b)

\* Python's true division of two ints, as an exact rational.
TrueDiv(n, d) ==
    LET g == GCD(Abs(n), d) IN <<n \div g, d \div g>>

Min(S) == CHOOSE x \in S : \A y \in S : x <= y
Max(S) == CHOOSE x \in S : \A y \in S : x >= y

Range(s) == {s[i] : i \in DOMAIN s}

----------------------------------------------------------------------------
(* The grid indexer (h3).  The sphere is cut into cells 60 degrees wide    *)
(* and high; a cell key is <<resolution, latitude band, longitude band>>.  *)
(* Longitude band 0 is centred on the antimeridian.  Coordinates reach the *)
(* indexer through sin/cos, so a latitude beyond a pole comes back down on *)
(* the opposite meridian and a longitude wraps modulo 360.                 *)

WrapLon(lon) == ((lon + 180) % 360) - 180

SphereLat(lat) ==
    IF lat > 90 THEN 180 - lat ELSE IF lat < -90 THEN -180 - lat ELSE lat

SphereLon(lat, lon) ==
    IF lat > 90 \/ lat < -90 THEN WrapLon(lon + 180) ELSE WrapLon(lon)

LatBand(lat) == Min({2, (lat + 90) \div 60})
LonBand(lon) == ((lon + 210) \div 60) % 6

geo_to_h3(lat, lon, res) ==
    <<res, LatBand(SphereLat(lat)), LonBand(SphereLon(lat, lon))>>

\* The six vertices of a cell, counter-clockwise, each as (lat, lon).
h3_to_geo_boundary(h) ==
    LET s == h[2] * 60 - 90
        c == h[3] * 60 - 180
        W(lon) == IF lon < -180 THEN lon + 360 ELSE lon
    IN  << <<s, W(c - 15)>>, <<s, W(c + 15)>>, <<s + 30, W(c + 30)>>,
           <<s + 60, W(c + 15)>>, <<s + 60, W(c - 15)>>, <<s + 30, W(c - 30)>> >>

----------------------------------------------------------------------------
(* Geometry *)

revert(polygon) ==
    [i \in DOMAIN polygon |-> <<polygon[i][2], polygon[i][1]>>]

\* shapely's Polygon: the shell as a closed ring of (x, y).
Polygon(shell) == Append(shell, shell[1])

\* GeoSeries.bounds of one geometry.
Bounds(geom) ==
    [minx |-> Min({geom[i][1] : i \in DOMAIN geom}),
     miny |-> Min({geom[i][2] : i \in DOMAIN geom}),
     maxx |-> Max({geom[i][1] : i \in DOMAIN geom}),
     maxy |-> Max({geom[i][2] : i \in DOMAIN geom})]

----------------------------------------------------------------------------
(* Frames: [columns |-> sequence of names, rows |-> sequence of records]   *)

HasColumn(d, c) == c \in Range(d.columns)

\* df[c] = column: set or add column c, in place.
SetColumn(d, c, column) ==
    [columns |-> IF HasColumn(d, c) THEN d.columns ELSE Append(d.columns, c),
     rows |-> [i \in DOMAIN d.rows |->
                 [k \in DOMAIN d.rows[i] \cup {c} |->
                     IF k = c THEN column[i] ELSE d.rows[i][k]]]]

\* Lexicographic order of cell keys (groupby sorts its keys).
KeyLess(a, b) ==
    \/ a[1] < b[1]
    \/ a[1] = b[1] /\ a[2] < b[2]
    \/ a[1] = b[1] /\ a[2] = b[2] /\ a[3] < b[3]

RECURSIVE SortKeys(_)
SortKeys(S) ==
    IF S = {} THEN <<>>
    ELSE LET m == CHOOSE x \in S : \A y \in S \ {x} : KeyLess(x, y)
         IN  <<m>> \o SortKeys(S \ {m})

RECURSIVE SumValues(_)
SumValues(rows) ==
    IF rows = <<>> THEN 0 ELSE rows[1].value + SumValues(Tail(rows))

----------------------------------------------------------------------------
(* prepare, __init__.py lines 95-135 *)

\* Mutant of AssignHex: the column is written and the caller's records are
\* left in reverse order.
AssignHexReversed(d) ==
    LET h == SetColumn(d, "hex",
                [i \in DOMAIN d.rows |->
                    geo_to_h3(d.rows[i].geometry.y, d.rows[i].geometry.x,
                              RESOLUTION)])
    IN  [h EXCEPT !.rows =
            [i \in DOMAIN h.rows |-> h.rows[Len(h.rows) + 1 - i]]]

\* Line 111: df["hex"] = [h3.geo_to_h3(lat, lon, RESOLUTION) ...], which
\* writes the column into the frame the caller passed.
AssignHex(d) ==
    SetColumn(d, "hex",
        [i \in DOMAIN d.rows |->
            geo_to_h3(d.rows[i].geometry.y, d.rows[i].geometry.x, RESOLUTION)])

GroupRows(d, h) == SelectSeq(d.rows, LAMBDA r : r.hex = h)

\* Mutants of MeanValue: agg "last", and agg "sum".
LastValue(rows) == TrueDiv(rows[Len(rows)].value, 1)
SumValue(rows) == TrueDiv(SumValues(rows), 1)

\* agg "mean" of one group: sum / count.
MeanValue(rows) == TrueDiv(SumValues(rows), Len(rows))

\* Mutant of GroupKeys: one key per row, duplicates kept.
RowKeys(d) == [i \in DOMAIN d.rows |-> d.rows[i].hex]

\* groupby("hex") keys: the distinct values of the column, sorted.
GroupKeys(d) == SortKeys({d.rows[i].hex : i \in DOMAIN d.rows})

\* Line 117: df.groupby("hex", as_index=False).agg({"value": "mean"})
GroupByMean(d) ==
    LET keys == GroupKeys(d)
    IN  [columns |-> <<"hex", "value">>,
         rows |-> [i \in DOMAIN keys |->
                     [hex |-> keys[i],
                      value |-> MeanValue(GroupRows(d, keys[i]))]]]

\* Lines 120-126: the polygon of every cell, vertices as (lon, lat).
WithGeometry(d) ==
    SetColumn(d, "geometry",
        [i \in DOMAIN d.rows |->
            Polygon(revert(h3_to_geo_boundary(d.rows[i].hex)))])

\* DataFrame.mask(cond): a row where cond holds keeps its place and has
\* every column replaced by NaN / None.
Mask(d, cond) ==
    [columns |-> d.columns,
     rows |-> [i \in DOMAIN d.rows |->
                 IF cond[i] THEN [k \in DOMAIN d.rows[i] |-> NaN]
                 ELSE d.rows[i]]]

\* Mutant of TooWide: the span compared with the full circle.
TooWide360(b) == b.maxx - b.minx > 360

\* Lines 129-133.
TooHigh(b) == b.maxy - b.miny > 180
TooWide(b) == b.maxx - b.minx > 180

MaskBorderCrossing(d) ==
    LET bounds == [i \in DOMAIN d.rows |-> Bounds(d.rows[i].geometry)]
        m1 == Mask(d, [i \in DOMAIN d.rows |-> TooHigh(bounds[i])])
    IN  Mask(m1, [i \in DOMAIN d.rows |-> TooWide(bounds[i])])

InRange(r) ==
    /\ r.geometry.y >= -90 /\ r.geometry.y <= 90
    /\ r.geometry.x >= -180 /\ r.geometry.x <= 180

\* Mutant of prepare: coordinates are validated before anything else.
prepare_validating(d) ==
    IF \E i \in DOMAIN d.rows : ~InRange(d.rows[i])
    THEN [raised |-> "InvalidPointError", arg |-> d, grouped |-> None,
          ret |-> None]
    ELSE LET hexed == AssignHex(d)
         IN  IF ~HasColumn(hexed, "value")
             THEN [raised |-> "KeyError", arg |-> hexed, grouped |-> None,
                   ret |-> None]
             ELSE LET g == GroupByMean(hexed)
                  IN  [raised |-> "", arg |-> hexed, grouped |-> g,
                       ret |-> MaskBorderCrossing(WithGeometry(g))]

\* The outcome of prepare(d): arg is the caller's frame as the call leaves
\* it, grouped the local frame after line 117, ret the returned frame.  The
\* aggregation raises KeyError when the frame has no "value" column.
prepare(d) ==
    LET hexed == AssignHex(d)
    IN  IF ~HasColumn(hexed, "value")
        THEN [raised |-> "KeyError", arg |-> hexed, grouped |-> None,
              ret |-> None]
        ELSE LET g == GroupByMean(hexed)
             IN  [raised |-> "", arg |-> hexed, grouped |-> g,
                  ret |-> MaskBorderCrossing(WithGeometry(g))]

----------------------------------------------------------------------------
(* Input frames *)

\* (latitude, longitude, value): two ordinary cells, the cell across the
\* antimeridian, and points beyond the latitude and the longitude range.
Points ==
    {<<30, 20, 10>>, <<30, 20, 20>>, <<100, 175, 20>>, <<30, -40, 10>>,
     <<30, -40, 20>>, <<30, 175, 10>>, <<30, 200, 20>>}

PointRows == {[value |-> p[3], geometry |-> [x |-> p[2], y |-> p[1]]] :
                 p \in Points}
BareRows == {[geometry |-> [x |-> p[2], y |-> p[1]]] : p \in Points}

SeqsUpTo(S, n) == UNION {[1..k -> S] : k \in 1..n}

\* What geopandas.read_file can hand back: features with a point geometry
\* and a value property, or features that carry no value property.
Frames(n) ==
    {[columns |-> <<"value", "geometry">>, rows |-> r] :
        r \in SeqsUpTo(PointRows, n)}
    \cup {[columns |-> <<"geometry">>, rows |-> r] : r \in SeqsUpTo(BareRows, 1)}

Swap(s, i) ==
    [j \in DOMAIN s |-> IF j = i THEN s[i + 1] ELSE IF j = i + 1 THEN s[i] ELSE s[j]]

\* The (cell key, mean value) pairs of a prepared frame.
Pairs(d) ==
    {<<d.rows[i].hex, d.rows[i].value>> : i \in DOMAIN d.rows}

----------------------------------------------------------------------------
(* prepare as a function of its argument: a caller holds a batch, calls    *)
(* prepare on it any number of times and may reorder the batch between     *)
(* calls.                                                                  *)

NoLoad == [product |-> <<>>, day |-> <<>>, ret |-> None]
NoArgs == [product |-> <<>>]

InitRest ==
    /\ fs = <<>> /\ fs0 = <<>> /\ lastSaved = <<>> /\ loaded = NoLoad
    /\ pc = "start" /\ args = NoArgs /\ found = FALSE /\ calls = <<>>
    /\ plotted = None

InitPrepare ==
    /\ raw \in Frames(MaxPoints)
    /\ df = None /\ grouped = None /\ raised = "" /\ ncalls = 0
    /\ results = {} /\ perm = "no"
    /\ InitRest

PrepareCall ==
    /\ ncalls < MaxCalls
    /\ LET r == prepare(raw)
       IN  /\ raw' = r.arg
           /\ df' = r.ret
           /\ grouped' = r.grouped
           /\ raised' = r.raised
           /\ results' = IF r.raised = ""
                         THEN results \cup {Pairs(r.ret)}
                         ELSE results
    /\ ncalls' = ncalls + 1
    /\ perm' = IF perm = "pending" THEN "called" ELSE perm
    /\ UNCHANGED <<fs, fs0, lastSaved, loaded, pc, args, found, calls, plotted>>

Reorder ==
    /\ \E i \in 1..(Len(raw.rows) - 1) :
          /\ raw.rows[i] # raw.rows[i + 1]
          /\ raw' = [raw EXCEPT !.rows = Swap(raw.rows, i)]
    /\ perm' = IF ncalls > 0 /\ perm = "no" THEN "pending" ELSE perm
    /\ UNCHANGED <<df, grouped, raised, ncalls, results, fs, fs0, lastSaved,
                   loaded, pc, args, found, calls, plotted>>

NextPrepare == PrepareCall \/ Reorder

SpecPrepare == InitPrepare /\ [][NextPrepare]_vars

----------------------------------------------------------------------------
(* Strings and dates *)

Digits == <<"0", "1", "2", "3", "4", "5", "6", "7", "8", "9">>

RECURSIVE Pow10(_)
Pow10(k) == IF k = 0 THEN 1 ELSE 10 * Pow10(k - 1)

\* "%0wd" % n
ZeroPad(n, w) == [i \in 1..w |-> Digits[((n \div Pow10(w - i)) % 10) + 1]]

\* datetime.date.isoformat: YYYY-MM-DD
isoformat(day) ==
    ZeroPad(day.year, 4) \o <<"-">> \o ZeroPad(day.month, 2) \o <<"-">>
        \o ZeroPad(day.day, 2)

IsDigit(c) == c \in Range(Digits)
DigitVal(c) == CHOOSE n \in 0..9 : Digits[n + 1] = c

RECURSIVE ToInt(_)
ToInt(s) ==
    IF s = <<>> THEN 0
    ELSE 10 * ToInt(SubSeq(s, 1, Len(s) - 1)) + DigitVal(s[Len(s)])

DaysIn(month) == IF month = 2 THEN 28 ELSE IF month \in {4, 6, 9, 11} THEN 30 ELSE 31

\* datetime.date.fromisoformat: the date, or None where it raises ValueError.
fromisoformat(s) ==
    IF /\ Len(s) = 10
       /\ s[5] = "-" /\ s[8] = "-"
       /\ \A i \in {1, 2, 3, 4, 6, 7, 9, 10} : IsDigit(s[i])
    THEN LET y == ToInt(SubSeq(s, 1, 4))
             m == ToInt(SubSeq(s, 6, 7))
             d == ToInt(SubSeq(s, 9, 10))
         IN  IF y >= 1 /\ m \in 1..12 /\ d \in 1..DaysIn(m)
             THEN [year |-> y, month |-> m, day |-> d]
             ELSE None
    ELSE None

Products == {<<"c", "o">>, <<"o", "3">>}
Days == {[year |-> 2019, month |-> 9, day |-> 1],
         [year |-> 2019, month |-> 9, day |-> 2]}

----------------------------------------------------------------------------
(* The cache, __init__.py lines 49-92 *)

\* Mutant of cache_filename: the day is left out of the name.
cache_filename_product(product, day) ==
    <<"c", "a", "c", "h", "e", "-">> \o product

cache_filename(product, day) ==
    <<"c", "a", "c", "h", "e", "-">> \o product \o <<"-">> \o isoformat(day)

Put(f, k, v) == [x \in DOMAIN f \cup {k} |-> IF x = k THEN v ELSE f[x]]

\* Twice the signed area of a closed ring; positive when counter-clockwise.
Area2(ring) ==
    LET RECURSIVE Sum(_)
        Sum(i) == IF i >= Len(ring) THEN 0
                  ELSE ring[i][1] * ring[i + 1][2] - ring[i + 1][1] * ring[i][2]
                       + Sum(i + 1)
    IN  Sum(1)

Reverse(s) == [i \in DOMAIN s |-> s[Len(s) + 1 - i]]

\* GeoDataFrame.to_file: one feature per row, attributes and geometry; the
\* file format stores an outer ring clockwise.
to_file(d) ==
    [i \in DOMAIN d.rows |->
        [properties |-> [hex |-> d.rows[i].hex, value |-> d.rows[i].value],
         geometry |-> IF d.rows[i].geometry = NaN THEN NaN
                      ELSE IF Area2(d.rows[i].geometry) > 0
                           THEN Reverse(d.rows[i].geometry)
                           ELSE d.rows[i].geometry]]

\* geopandas.read_file of a stored file.
read_file(file) ==
    [columns |-> <<"hex", "value", "geometry">>,
     rows |-> [i \in DOMAIN file |->
                 [hex |-> file[i].properties.hex,
                  value |-> file[i].properties.value,
                  geometry |-> file[i].geometry]]]

cache_load(files, product, day) ==
    LET fn == cache_filename(product, day)
    IN  IF fn \notin DOMAIN files THEN None ELSE read_file(files[fn])

\* The files after cache_save(d, product, day).
cache_save(files, d, product, day) ==
    Put(files, cache_filename(product, day), to_file(d))

\* Prepared datasets a caller can hold.
Datasets == {prepare(f).ret : f \in {g \in Frames(1) : HasColumn(g, "value")}}

InitCache ==
    /\ fs = <<>> /\ fs0 = <<>> /\ lastSaved = <<>> /\ loaded = NoLoad
    /\ raw = None /\ df = None /\ grouped = None /\ raised = ""
    /\ ncalls = 0 /\ results = {} /\ perm = "no"
    /\ pc = "start" /\ args = NoArgs /\ found = FALSE /\ calls = <<>>
    /\ plotted = None

CacheSave ==
    /\ \E d \in Datasets, product \in Products, day \in Days :
          /\ fs' = cache_save(fs, d, product, day)
          /\ lastSaved' = Put(lastSaved, <<product, day>>, d)
    /\ UNCHANGED <<raw, df, grouped, raised, ncalls, results, perm, fs0,
                   loaded, pc, args, found, calls, plotted>>

CacheLoad ==
    /\ \E product \in Products, day \in Days :
          loaded' = [product |-> product, day |-> day,
                     ret |-> cache_load(fs, product, day)]
    /\ UNCHANGED <<raw, df, grouped, raised, ncalls, results, perm, fs, fs0,
                   lastSaved, pc, args, found, calls, plotted>>

NextCache == CacheSave \/ CacheLoad

SpecCache == InitCache /\ [][NextCache]_vars

----------------------------------------------------------------------------
(* The command line, __main__.py lines 10-118.  An option argparse reads   *)
(* without a type stays the str the user typed; a default keeps the type   *)
(* of the default.                                                         *)

IntVal(n) == [type |-> "int", val |-> n]
StrVal(n) == [type |-> "str", val |-> n]

\* What the user may type for the day, for a pixel size and for the DPI.
DayArgs == {isoformat(d) : d \in Days} \cup {<<"2", "0", "1", "9", "-", "9", "-", "1">>}
PixelArgs == {None, StrVal(1000)}
DpiArgs == {None, StrVal(100)}

OptionOr(given, default) == IF given = None THEN IntVal(default) ELSE given

\* What download_points can return for a day.
Responses ==
    {[columns |-> <<"value", "geometry">>,
      rows |-> <<[value |-> 10, geometry |-> [x |-> 20, y |-> 30]],
                 [value |-> 20, geometry |-> [x |-> 175, y |-> 100]],
                 [value |-> 10, geometry |-> [x |-> 175, y |-> 30]]>>],
     [columns |-> <<"value", "geometry">>,
      rows |-> <<[value |-> 20, geometry |-> [x |-> -40, y |-> 30]]>>],
     [columns |-> <<"geometry">>,
      rows |-> <<[geometry |-> [x |-> 20, y |-> 30]]>>]}

----------------------------------------------------------------------------
(* main and get_points: one invocation after another over the same cache  *)

Init ==
    /\ fs = <<>> /\ fs0 = <<>> /\ lastSaved = <<>> /\ loaded = NoLoad
    /\ raw = None /\ df = None /\ grouped = None /\ raised = ""
    /\ ncalls = 0 /\ results = {} /\ perm = "no"
    /\ pc = "start" /\ args = NoArgs /\ found = FALSE /\ calls = <<>>
    /\ plotted = None

\* __main__.py lines 107-118, called at line 125.
parse_command_line ==
    /\ pc = "start"
    /\ \E product \in Products, day \in DayArgs, no_caching \in BOOLEAN,
          px \in PixelArgs, py \in PixelArgs, dpi \in DpiArgs :
          LET date == fromisoformat(day)
          IN  IF date = None
              THEN /\ raised' = "ValueError"
                   /\ pc' = "exit"
                   /\ args' = NoArgs
              ELSE /\ args' = [product |-> product, day |-> date,
                               no_caching |-> no_caching,
                               output |-> product \o <<"-">> \o isoformat(date)
                                            \o <<".", "p", "n", "g">>,
                               pixels_x |-> OptionOr(px, DefaultPixelsX),
                               pixels_y |-> OptionOr(py, DefaultPixelsY),
                               dpi |-> OptionOr(dpi, DefaultDpi)]
                   /\ pc' = "get_points"
                   /\ raised' = ""
    /\ UNCHANGED <<raw, df, grouped, ncalls, results, perm, fs, fs0,
                   lastSaved, loaded, found, calls, plotted>>

\* Mutant of get_points_cache: the cache is never consulted.
get_points_uncached ==
    /\ pc = "get_points"
    /\ found' = FALSE /\ calls' = <<>> /\ df' = None /\ pc' = "download"
    /\ UNCHANGED <<raw, grouped, raised, ncalls, results, perm, fs, fs0,
                   lastSaved, loaded, args, plotted>>

\* get_points lines 156-160.
get_points_cache ==
    /\ pc = "get_points"
    /\ IF ~args.no_caching
       THEN LET got == cache_load(fs, args.product, args.day)
            IN  /\ found' = (got # None)
                /\ calls' = <<"cache_load">>
                /\ df' = got
                /\ pc' = IF got # None THEN "plot" ELSE "download"
       ELSE /\ found' = FALSE
            /\ calls' = <<>>
            /\ df' = None
            /\ pc' = "download"
    /\ UNCHANGED <<raw, grouped, raised, ncalls, results, perm, fs, fs0,
                   lastSaved, loaded, args, plotted>>

\* get_points line 162: the request succeeds with some response, or the
\* transport raises and the exception leaves get_points and main.
get_points_download ==
    /\ pc = "download"
    /\ calls' = Append(calls, "download_points")
    /\ \/ \E f \in Responses :
             /\ raw' = f
             /\ pc' = "prepare"
             /\ raised' = raised
       \/ /\ raised' = "DriverError"
          /\ pc' = "exit"
          /\ raw' = raw
    /\ UNCHANGED <<df, grouped, ncalls, results, perm, fs, fs0, lastSaved,
                   loaded, args, found, plotted>>

\* Mutant of get_points_prepare: an exception of prepare is swallowed.
get_points_prepare_swallow ==
    /\ pc = "prepare"
    /\ calls' = Append(calls, "prepare")
    /\ LET r == prepare(raw)
       IN  /\ raw' = r.arg
           /\ grouped' = r.grouped
           /\ df' = r.ret
           /\ raised' = r.raised
           /\ pc' = IF args.no_caching \/ r.raised # "" THEN "plot"
                    ELSE "cache_save"
    /\ UNCHANGED <<ncalls, results, perm, fs, fs0, lastSaved, loaded, args,
                   found, plotted>>

\* get_points line 163, and the branch of line 165.
get_points_prepare ==
    /\ pc = "prepare"
    /\ calls' = Append(calls, "prepare")
    /\ LET r == prepare(raw)
       IN  /\ raw' = r.arg
           /\ grouped' = r.grouped
           /\ df' = r.ret
           /\ raised' = r.raised
           /\ pc' = IF r.raised # "" THEN "exit"
                    ELSE IF args.no_caching THEN "plot" ELSE "cache_save"
    /\ UNCHANGED <<ncalls, results, perm, fs, fs0, lastSaved, loaded, args,
                   found, plotted>>

\* get_points line 166.
get_points_save ==
    /\ pc = "cache_save"
    /\ calls' = Append(calls, "cache_save")
    /\ fs' = cache_save(fs, df, args.product, args.day)
    /\ pc' = "plot"
    /\ UNCHANGED <<raw, df, grouped, raised, ncalls, results, perm, fs0,
                   lastSaved, loaded, args, found, plotted>>

\* Python's / on option values: defined on numbers, TypeError on a str.
CanDivide(a, b) == a.type = "int" /\ b.type = "int"

\* main lines 137-149: the size tuple is evaluated, then plot is called.
main_plot ==
    /\ pc = "plot"
    /\ IF CanDivide(args.pixels_x, args.dpi) /\ CanDivide(args.pixels_y, args.dpi)
       THEN /\ plotted' = [data |-> df,
                           output |-> args.output,
                           size |-> <<TrueDiv(args.pixels_x.val, args.dpi.val),
                                      TrueDiv(args.pixels_y.val, args.dpi.val)>>,
                           dpi |-> args.dpi]
            /\ raised' = raised
       ELSE /\ raised' = "TypeError"
            /\ plotted' = plotted
    /\ pc' = "exit"
    /\ UNCHANGED <<raw, df, grouped, ncalls, results, perm, fs, fs0,
                   lastSaved, loaded, args, found, calls>>

\* The process has ended; the next invocation starts over the same files.
next_invocation ==
    /\ pc = "exit"
    /\ pc' = "start"
    /\ fs0' = fs
    /\ raw' = None /\ df' = None /\ grouped' = None /\ raised' = ""
    /\ args' = NoArgs /\ found' = FALSE /\ calls' = <<>> /\ plotted' = None
    /\ UNCHANGED <<ncalls, results, perm, fs, lastSaved, loaded>>

Next ==
    \/ next_invocation
    \/ parse_command_line
    \/ get_points_cache
    \/ get_points_download
    \/ get_points_prepare
    \/ get_points_save
    \/ main_plot

Spec == Init /\ [][Next]_vars

----------------------------------------------------------------------------
(* Properties of prepare, checked under SpecPrepare *)

CellOf(r) == geo_to_h3(r.geometry.y, r.geometry.x, RESOLUTION)
Occupied(d) == {CellOf(d.rows[i]) : i \in DOMAIN d.rows}
PointsIn(d, h) == {i \in DOMAIN d.rows : CellOf(d.rows[i]) = h}

RECURSIVE SumOver(_, _)
SumOver(d, I) ==
    IF I = {} THEN 0
    ELSE LET i == CHOOSE j \in I : TRUE
         IN  d.rows[i].value + SumOver(d, I \ {i})

Returned == ncalls > 0 /\ raised = ""

\* C1: every cell key of the returned dataset carries the arithmetic mean of
\* the values of exactly the input points that map to that cell.
C1_MeanOfCellPoints ==
    Returned =>
        \A i \in DOMAIN df.rows :
            df.rows[i].hex # NaN =>
                LET I == PointsIn(raw, df.rows[i].hex)
                IN  /\ I # {}
                    /\ df.rows[i].value[2] > 0
                    /\ df.rows[i].value[1] * Cardinality(I)
                         = df.rows[i].value[2] * SumOver(raw, I)

\* Two points of one cell, with values 10 and 20, gave one cell of value 15.
C1_Witness ==
    /\ Returned
    /\ Len(raw.rows) = 2
    /\ {raw.rows[1].value, raw.rows[2].value} = {10, 20}
    /\ raw.rows[1].geometry # raw.rows[2].geometry
    /\ Len(df.rows) = 1
    /\ df.rows[1].hex # NaN
    /\ df.rows[1].value = <<15, 1>>

\* C2: the grouping step yields exactly one record per occupied cell: the
\* keys of the grouped frame are the cells the input points map to, and no
\* key appears in two records.
C2_OneRecordPerOccupiedCell ==
    Returned =>
        /\ {grouped.rows[i].hex : i \in DOMAIN grouped.rows} = Occupied(raw)
        /\ \A i, j \in DOMAIN grouped.rows :
              grouped.rows[i].hex = grouped.rows[j].hex => i = j

\* Three points, two of them in one cell, grouped into two records.
C2_Witness ==
    /\ Returned
    /\ Len(raw.rows) = 3
    /\ Len(grouped.rows) = 2

\* The bounding box of a cell's boundary, from the indexer's vertices.
SpanOK(h) ==
    LET b == h3_to_geo_boundary(h)
        lat == {b[i][1] : i \in DOMAIN b}
        lon == {b[i][2] : i \in DOMAIN b}
    IN  /\ \A x, y \in lat : x - y <= 180
        /\ \A x, y \in lon : x - y <= 180

\* C3 as stated: the records of the returned dataset are exactly the
\* occupied cells whose bounding box spans at most 180 degrees both ways; a
\* wider cell has no record at all.
C3_Original ==
    Returned =>
        /\ \A h \in Occupied(raw) :
              SpanOK(h) <=> \E i \in DOMAIN df.rows : df.rows[i].hex = h
        /\ \A i \in DOMAIN df.rows :
              df.rows[i].hex \in {h \in Occupied(raw) : SpanOK(h)}

\* C3 amended: every grouped cell keeps its record; the record carries key,
\* mean value and polygon iff the bounding box spans at most 180 degrees
\* both ways, and is all null otherwise.
C3_MaskedNotDropped ==
    Returned =>
        /\ Len(df.rows) = Len(grouped.rows)
        /\ \A i \in DOMAIN df.rows :
              LET h == grouped.rows[i].hex
              IN  IF SpanOK(h)
                  THEN df.rows[i] =
                         [hex |-> h, value |-> grouped.rows[i].value,
                          geometry |-> Polygon(revert(h3_to_geo_boundary(h)))]
                  ELSE df.rows[i] =
                         [hex |-> NaN, value |-> NaN, geometry |-> NaN]

\* A cell across the antimeridian and an ordinary cell in one result.
C3_Witness ==
    /\ Returned
    /\ \E i, j \in DOMAIN df.rows :
          /\ df.rows[i].hex = NaN /\ ~SpanOK(grouped.rows[i].hex)
          /\ df.rows[j].hex # NaN

\* C4: every prepare result obtained from the batch, in whatever order its
\* rows were given and however often prepare ran, has the same pairs.
C4_OrderIndependent ==
    \A r1, r2 \in results : r1 = r2

\* Two calls on differently ordered rows with unequal values in one cell.
C4_Witness ==
    /\ perm = "called"
    /\ results # {}
    /\ \E i, j \in DOMAIN raw.rows :
          /\ raw.rows[i].hex = raw.rows[j].hex
          /\ raw.rows[i].value # raw.rows[j].value

OutOfRange(d) == \E i \in DOMAIN d.rows : ~InRange(d.rows[i])

\* C5 as stated: a batch with an out-of-range point makes prepare fail with
\* InvalidPointError and return nothing.
C5_Original ==
    (ncalls > 0 /\ OutOfRange(raw)) =>
        (raised = "InvalidPointError" /\ df = None)

\* C5 amended: prepare validates no coordinate and never raises
\* InvalidPointError; an out-of-range point is indexed and aggregated like
\* any other.  prepare fails only when the aggregation raises (no value
\* column), and then returns no dataset.
C5_NoRangeValidation ==
    ncalls > 0 =>
        /\ raised # "InvalidPointError"
        /\ (raised = "") <=> HasColumn(raw, "value")
        /\ (raised # "") <=> (df = None)
        /\ raised = "" =>
              \A i \in DOMAIN raw.rows :
                  \E j \in DOMAIN grouped.rows :
                      grouped.rows[j].hex = CellOf(raw.rows[i])

\* A batch mixing an out-of-range point with a valid one gave a dataset.
C5_Witness ==
    /\ Returned
    /\ df # None
    /\ \E i, j \in DOMAIN raw.rows :
          ~InRange(raw.rows[i]) /\ InRange(raw.rows[j])

\* C6 as stated: a call of prepare leaves the caller's collection and all
\* other state as they were.
C6_Original ==
    [][ncalls' = ncalls + 1 =>
          /\ raw' = raw
          /\ fs' = fs]_vars

\* C6 amended: a call of prepare touches no file and keeps the caller's
\* records and their existing fields, but leaves a hex column holding each
\* record's cell key in the caller's collection.
C6_OnlyHexColumnWritten ==
    [][ncalls' = ncalls + 1 =>
          /\ fs' = fs
          /\ Range(raw'.columns) = Range(raw.columns) \cup {"hex"}
          /\ Len(raw'.rows) = Len(raw.rows)
          /\ \A i \in DOMAIN raw.rows :
                /\ DOMAIN raw'.rows[i] = DOMAIN raw.rows[i] \cup {"hex"}
                /\ raw'.rows[i].hex = CellOf(raw.rows[i])
                /\ \A k \in DOMAIN raw.rows[i] \ {"hex"} :
                      raw'.rows[i][k] = raw.rows[i][k]]_vars

\* prepare has returned and the caller's collection holds a hex column.
C6_Witness ==
    /\ Returned
    /\ HasColumn(raw, "hex")
    /\ \A i \in DOMAIN raw.rows : raw.rows[i].hex = CellOf(raw.rows[i])

----------------------------------------------------------------------------
(* Properties of the cache, checked under SpecCache *)

KeysAndValues(d) ==
    [i \in DOMAIN d.rows |-> <<d.rows[i].hex, d.rows[i].value>>]

\* C9: cache_load(product, day) returns the cell keys and mean values of the
\* dataset most recently saved under exactly that (product, day), and None
\* if nothing was ever saved under it, whatever was saved under other keys.
C9_LastWriteWins ==
    \A product \in Products, day \in Days :
        LET got == cache_load(fs, product, day)
        IN  IF <<product, day>> \in DOMAIN lastSaved
            THEN /\ got # None
                 /\ KeysAndValues(got)
                      = KeysAndValues(lastSaved[<<product, day>>])
            ELSE got = None

\* A load returned a dataset whose geometry was rewritten on the way, while
\* another key holds a different dataset and a third key holds none.
C9_Witness ==
    /\ loaded.ret # None
    /\ <<loaded.product, loaded.day>> \in DOMAIN lastSaved
    /\ loaded.ret # lastSaved[<<loaded.product, loaded.day>>]
    /\ \E k \in DOMAIN lastSaved :
          /\ k # <<loaded.product, loaded.day>>
          /\ lastSaved[k] # lastSaved[<<loaded.product, loaded.day>>]
    /\ \E product \in Products, day \in Days :
          <<product, day>> \notin DOMAIN lastSaved

----------------------------------------------------------------------------
(* Properties of get_points and main, checked under Spec *)

Fn == cache_filename(args.product, args.day)
InGetPoints == pc \in {"download", "prepare", "cache_save", "plot"}

\* C7: with caching enabled, get_points consults the cache first; on a hit
\* it returns the cached dataset and calls nothing else; on a miss it calls
\* download_points, prepare and cache_save in that order and the dataset it
\* saved is the dataset it returns.
C7_CacheConsultedFirst ==
    (InGetPoints /\ ~args.no_caching) =>
        /\ found = (Fn \in DOMAIN fs0)
        /\ IF found
           THEN /\ pc = "plot"
                /\ calls = <<"cache_load">>
                /\ df = read_file(fs0[Fn])
                /\ fs = fs0
           ELSE /\ pc = "download" => calls = <<"cache_load">>
                /\ pc = "prepare" => calls = <<"cache_load", "download_points">>
                /\ pc = "cache_save" =>
                      calls = <<"cache_load", "download_points", "prepare">>
                /\ pc = "plot" =>
                      /\ calls = <<"cache_load", "download_points", "prepare",
                                   "cache_save">>
                      /\ fs = Put(fs0, Fn, to_file(df))
                /\ pc # "plot" => fs = fs0

\* get_points returned a dataset from the cache of an earlier invocation.
C7_Witness ==
    /\ pc = "plot"
    /\ ~args.no_caching
    /\ found
    /\ calls = <<"cache_load">>
    /\ df # None

\* C8: a failure of download_points or prepare ends the invocation: nothing
\* is called again, the cache is as the invocation found it, plot is not
\* called; plot is called only with a dataset get_points returned.
C8_FailureIsTerminal ==
    /\ raised \in {"DriverError", "KeyError"} =>
          /\ pc = "exit"
          /\ plotted = None
          /\ df = None
          /\ fs = fs0
    /\ \A i, j \in DOMAIN calls : calls[i] = calls[j] => i = j
    /\ plotted # None =>
          /\ raised = ""
          /\ df # None
          /\ plotted.data = df

\* prepare failed in an invocation with caching on and a cache that already
\* holds other entries.
C8_Witness ==
    /\ pc = "exit"
    /\ raised = "KeyError"
    /\ ~args.no_caching
    /\ calls = <<"cache_load", "download_points", "prepare">>
    /\ fs # <<>>
    /\ Fn \notin DOMAIN fs

\* C10: on every accepted command line, once get_points has returned, main
\* calls plot with (pixels_x / dpi, pixels_y / dpi) and the dpi.
C10_Original ==
    (pc = "exit" /\ raised \notin {"ValueError", "DriverError", "KeyError"}) =>
        /\ plotted # None
        /\ plotted.size = <<TrueDiv(args.pixels_x.val, args.dpi.val),
                            TrueDiv(args.pixels_y.val, args.dpi.val)>>
        /\ plotted.dpi.val = args.dpi.val

====
